---- MODULE Spec2Model ----
(***************************************************************************)
(* Model of the scoring engine of src/app.py: the three category scorers   *)
(* of SEOScorer (analyze_content_seo, analyze_technical_seo,               *)
(* analyze_user_experience), calculate_overall_score, summarize_category   *)
(* and the part of main() that runs them on every uploaded file and builds *)
(* the Performance Overview from the results.                              *)
(*                                                                         *)
(* A table (pandas DataFrame) is a record [rows, col]: the number of rows  *)
(* and a function from the column names present to the column's cells.     *)
(* A cell is null (NaN), a number or a string.  Numeric cells are          *)
(* fixed-point integers in the unit of their column:                       *)
(*   'Response Time', 'Mobile Speed', 'Page Speed', 'LCP'  tenths of a sec *)
(*   'Cumulative Layout Shift', 'CLS'                      hundredths      *)
(*   every other numeric column                            units           *)
(* Unrounded scores are exact rationals [num, den]; den = 0 is NaN.        *)
(***************************************************************************)
EXTENDS Integers, Sequences, FiniteSets, TLC

VARIABLES df, pc, content, technical, ux, overall_score, comparison_data,
          uploaded_files, file_index, errors, detailed_analyses, cards, raw_name,
          sheets

vars == <<df, pc, content, technical, ux, overall_score, comparison_data,
          uploaded_files, file_index, errors, detailed_analyses, cards, raw_name,
          sheets>>

----
(* Cells *)

NULL == [k |-> "null", n |-> 0, s |-> ""]
Num(x) == [k |-> "num", n |-> x, s |-> ""]
Str(x) == [k |-> "str", n |-> 0, s |-> x]

Has(d, c) == c \in DOMAIN d.col
Rows(d) == 1..d.rows
Cell(d, c, i) == d.col[c][i]

notna(cell) == cell.k # "null"
IsNum(cell) == cell.k = "num"
\* an object column holding a string: ordering comparisons, arithmetic and
\* .mean() on it raise TypeError
HasStr(d, c) == \E i \in Rows(d) : Cell(d, c, i).k = "str"
\* the .str accessor raises AttributeError on a column that is not of object
\* dtype: a non-empty column without a single string cell
StrAccessorRaises(d, c) == d.rows > 0 /\ ~HasStr(d, c)

----
(* Exact arithmetic on unrounded scores *)

Rat(a, b) == [num |-> a, den |-> b]
NaN == Rat(0, 0)
IsNaN(r) == r.den = 0
\* r < x for an integer x; a comparison with NaN is False
Lt(r, x) == r.den > 0 /\ r.num < x * r.den
Gt(r, x) == r.den > 0 /\ r.num > x * r.den
\* Series.mean() * 100 of a boolean Series with k True values among n rows
Pct(k, n) == Rat(100 * k, n)
\* Series.mean() of the non-null numeric cells of a column (skipna)
SumOf(d, c) ==
  LET RECURSIVE S(_)
      S(i) == IF i = 0 THEN 0
              ELSE S(i - 1) + (IF IsNum(Cell(d, c, i)) THEN Cell(d, c, i).n ELSE 0)
  IN S(d.rows)
CountNum(d, c) == Cardinality({i \in Rows(d) : IsNum(Cell(d, c, i))})

RoundFloor(num, den) == num \div den

\* round(x) of Python/numpy for x = num/den, den > 0: nearest integer, ties to even
Round(num, den) ==
  LET q == num \div den
      r == num - q * den
  IN IF 2 * r < den THEN q
     ELSE IF 2 * r > den THEN q + 1
     ELSE IF q % 2 = 0 THEN q ELSE q + 1

RoundRat(r) == Round(r.num, r.den)

\* max(0, x): x when x > 0, else the int 0 (also for NaN)
Max0(r) == IF Gt(r, 0) THEN r ELSE Rat(0, 1)

----
(* Results of one block of a scorer and of a whole scorer *)

Block(score, weak) == [err |-> FALSE, score |-> score, weak |-> weak]
Raise == [err |-> TRUE, score |-> Rat(0, 1), weak |-> <<>>]
\* a scorer that raised, and one that main has not called (yet)
Raised ==
  [ran |-> TRUE, err |-> TRUE, score |-> 0, scores |-> [x \in {} |-> 0], weaknesses |-> <<>>]
NotRun ==
  [ran |-> FALSE, err |-> FALSE, score |-> 0, scores |-> [x \in {} |-> 0], weaknesses |-> <<>>]

\* weaknesses.append(label) under `if score < floor`
Floor(score, floor, label) == IF Lt(score, floor) THEN <<label>> ELSE <<>>

RECURSIVE SumSeq(_)
SumSeq(s) == IF s = <<>> THEN 0 ELSE Head(s) + SumSeq(Tail(s))

MeanTruncated(values) == SumSeq(values) \div Len(values)

\* round(np.mean(list(scores.values())))
MeanRounded(values) == Round(SumSeq(values), Len(values))

----
(* SEOScorer.analyze_content_seo *)

\* rows whose 'Title 1'-like text column is non-null and whose length column is in [lo, hi]
InRange(cell, lo, hi) == IsNum(cell) /\ cell.n >= lo /\ cell.n <= hi

\* Meta title / meta description: text column, optional length column
TextLengthScore(d, text, length, lo, hi, label) ==
  IF Has(d, text)
  THEN IF Has(d, length)
       THEN IF HasStr(d, length) THEN Raise
            ELSE LET s == Pct(Cardinality({i \in Rows(d) :
                                 notna(Cell(d, text, i)) /\ InRange(Cell(d, length, i), lo, hi)}),
                              d.rows)
                 IN Block(s, Floor(s, 50, label))
       ELSE LET s == Pct(Cardinality({i \in Rows(d) : notna(Cell(d, text, i))}), d.rows)
            IN Block(s, Floor(s, 50, label))
  ELSE Block(Rat(0, 1), <<>>)

title_score(d) ==
  TextLengthScore(d, "Title 1", "Title 1 Length", 30, 60, "Short or missing meta titles.")

desc_score(d) ==
  TextLengthScore(d, "Meta Description 1", "Meta Description 1 Length", 120, 160,
                  "Short or missing meta descriptions.")

\* df[c].notna().mean() * 100
NotnaPct(d, c) == Pct(Cardinality({i \in Rows(d) : notna(Cell(d, c, i))}), d.rows)

h1_score(d) ==
  IF Has(d, "H1-1")
  THEN Block(NotnaPct(d, "H1-1"),
             Floor(NotnaPct(d, "H1-1"), 50, "Missing or poorly optimized H1 tags."))
  ELSE IF Has(d, "H1")
  THEN Block(NotnaPct(d, "H1"),
             Floor(NotnaPct(d, "H1"), 50, "Missing or poorly optimized H1 tags."))
  ELSE Block(Rat(0, 1), <<>>)

\* the first column of a list that the table has, or "" when it has none
RECURSIVE FirstPresent(_, _)
FirstPresent(d, cols) ==
  IF cols = <<>> THEN ""
  ELSE IF Has(d, Head(cols)) THEN Head(cols)
  ELSE FirstPresent(d, Tail(cols))

schema_columns == <<"Schema.org Microdata", "JSON-LD", "Structured Data", "Schema">>
keyword_columns == <<"Keyword Density", "Keywords", "Primary Keyword">>

schema_score(d) ==
  LET c == FirstPresent(d, schema_columns)
  IN IF c # "" THEN Block(NotnaPct(d, c), <<>>) ELSE Block(Rat(0, 1), <<>>)

keyword_score(d) ==
  LET c == FirstPresent(d, keyword_columns)
  IN IF c # "" THEN Block(NotnaPct(d, c), <<>>) ELSE Block(Rat(0, 1), <<>>)

\* Image alt text feeds detailed_analysis only; what reaches the returned
\* score, mapping and weaknesses is whether its arithmetic raises
img_alt_score(d) ==
  IF Has(d, "Images") /\ Has(d, "Images Missing Alt Text")
  THEN IF HasStr(d, "Images") \/ HasStr(d, "Images Missing Alt Text")
       THEN Raise ELSE Block(Rat(0, 1), <<>>)
  ELSE Block(Rat(0, 1), <<>>)

\* (df[c] > 0).mean() * 100
PositivePct(d, c) ==
  Pct(Cardinality({i \in Rows(d) : IsNum(Cell(d, c, i)) /\ Cell(d, c, i).n > 0}), d.rows)

LinkScore(d, c) ==
  IF HasStr(d, c) THEN Raise
  ELSE Block(PositivePct(d, c), Floor(PositivePct(d, c), 50, "Insufficient internal linking."))

internal_linking_score(d) ==
  IF Has(d, "Inlinks") THEN LinkScore(d, "Inlinks")
  ELSE IF Has(d, "Internal Links") THEN LinkScore(d, "Internal Links")
  ELSE Block(Rat(0, 1), <<>>)

\* (df[c] >= x).mean() * 100
AtLeastPct(d, c, x) ==
  Pct(Cardinality({i \in Rows(d) : IsNum(Cell(d, c, i)) /\ Cell(d, c, i).n >= x}), d.rows)

word_count_good(d) ==
  IF Has(d, "Word Count") THEN AtLeastPct(d, "Word Count", 300) ELSE Rat(0, 1)

readability_good(d) ==
  IF Has(d, "Flesch Reading Ease Score")
  THEN AtLeastPct(d, "Flesch Reading Ease Score", 60) ELSE Rat(0, 1)

\* (a + b) / 2 for a = x/m and b = y/n
Half(a, b) == Rat(a.num * b.den + b.num * a.den, 2 * a.den * b.den)

content_quality_score(d) ==
  IF (Has(d, "Word Count") /\ HasStr(d, "Word Count"))
     \/ (Has(d, "Flesch Reading Ease Score") /\ HasStr(d, "Flesch Reading Ease Score"))
  THEN Raise
  ELSE IF Gt(word_count_good(d), 0) \/ Gt(readability_good(d), 0)
  THEN LET s == Half(word_count_good(d), readability_good(d))
       IN Block(s, Floor(s, 50, "Low content quality or poor readability."))
  ELSE Block(Rat(0, 1), <<>>)

\* the scorer's return value from its blocks: the blocks that only feed
\* detailed_analysis (others) can raise; round() raises on NaN
Result(blocks, names, others) ==
  IF (\E i \in 1..Len(blocks) : blocks[i].err \/ IsNaN(blocks[i].score))
     \/ (\E i \in 1..Len(others) : others[i].err)
  THEN Raised
  ELSE LET rounded == [i \in 1..Len(blocks) |-> RoundRat(blocks[i].score)]
           RECURSIVE Weak(_)
           Weak(i) == IF i = 0 THEN <<>> ELSE Weak(i - 1) \o blocks[i].weak
       IN [ran |-> TRUE, err |-> FALSE,
           score |-> MeanRounded(rounded),
           scores |-> [nm \in {names[i] : i \in 1..Len(names)} |->
                         rounded[CHOOSE i \in 1..Len(names) : names[i] = nm]],
           weaknesses |-> Weak(Len(blocks))]

analyze_content_seo(d) ==
  Result(<<title_score(d), desc_score(d), h1_score(d),
           internal_linking_score(d), content_quality_score(d)>>,
         <<"meta_title", "meta_description", "h1_tags", "internal_linking", "content_quality">>,
         <<schema_score(d), keyword_score(d), img_alt_score(d)>>)

----
(* SEOScorer.analyze_technical_seo *)

\* (df[c] <= x).mean() * 100
AtMostPct(d, c, x) ==
  Pct(Cardinality({i \in Rows(d) : IsNum(Cell(d, c, i)) /\ Cell(d, c, i).n <= x}), d.rows)

\* (df[c] == x).mean() * 100 for a number x; == never raises
EqualsNumPct(d, c, x) ==
  Pct(Cardinality({i \in Rows(d) : IsNum(Cell(d, c, i)) /\ Cell(d, c, i).n = x}), d.rows)

\* (df[c] == x).mean() * 100 for a string x
EqualsStrPct(d, c, x) ==
  Pct(Cardinality({i \in Rows(d) : Cell(d, c, i).k = "str" /\ Cell(d, c, i).s = x}), d.rows)

\* max(0, 100 - df[c].mean() * factor / unit) with the cells of c in 1/unit
SpeedScore(d, c, factor, unit) ==
  Max0(Rat(100 * unit * CountNum(d, c) - factor * SumOf(d, c), unit * CountNum(d, c)))

\* 'Response Time' in tenths of a second: <= 1.0 is <= 10
response_score(d) ==
  IF Has(d, "Response Time")
  THEN IF HasStr(d, "Response Time") THEN Raise
       ELSE Block(AtMostPct(d, "Response Time", 10),
                  Floor(AtMostPct(d, "Response Time", 10), 50, "Slow response times."))
  ELSE IF Has(d, "Mobile Speed")
  THEN IF HasStr(d, "Mobile Speed") THEN Raise ELSE Block(Rat(0, 1), <<>>)
  ELSE IF Has(d, "Page Speed")
  THEN IF HasStr(d, "Page Speed") THEN Raise
       ELSE Block(SpeedScore(d, "Page Speed", 10, 10), <<>>)
  ELSE Block(Rat(0, 1), <<>>)

StatusOfFloor50(d, c) ==
  Block(EqualsNumPct(d, c, 200),
        Floor(EqualsNumPct(d, c, 200), 50, "Issues with HTTP status codes."))

StatusOf(d, c) ==
  Block(EqualsNumPct(d, c, 200),
        Floor(EqualsNumPct(d, c, 200), 70, "Issues with HTTP status codes."))

status_score_nodefault(d) ==
  IF Has(d, "Status Code") THEN StatusOf(d, "Status Code")
  ELSE IF Has(d, "HTTP Status Code") THEN StatusOf(d, "HTTP Status Code")
  ELSE Block(Rat(0, 1), <<>>)

status_score(d) ==
  IF Has(d, "Status Code") THEN StatusOf(d, "Status Code")
  ELSE IF Has(d, "HTTP Status Code") THEN StatusOf(d, "HTTP Status Code")
  ELSE Block(Rat(85, 1), <<>>)

\* index_score that looks for "Indexable" under both column names
index_score_onevalue(d) ==
  IF Has(d, "Indexability")
  THEN Block(EqualsStrPct(d, "Indexability", "Indexable"),
             Floor(EqualsStrPct(d, "Indexability", "Indexable"), 70, "Pages not indexable."))
  ELSE IF Has(d, "Indexable")
  THEN Block(EqualsStrPct(d, "Indexable", "Indexable"),
             Floor(EqualsStrPct(d, "Indexable", "Indexable"), 70, "Pages not indexable."))
  ELSE Block(Rat(80, 1), <<>>)

index_score(d) ==
  IF Has(d, "Indexability")
  THEN Block(EqualsStrPct(d, "Indexability", "Indexable"),
             Floor(EqualsStrPct(d, "Indexability", "Indexable"), 70, "Pages not indexable."))
  ELSE IF Has(d, "Indexable")
  THEN Block(EqualsStrPct(d, "Indexable", "Yes"),
             Floor(EqualsStrPct(d, "Indexable", "Yes"), 70, "Pages not indexable."))
  ELSE Block(Rat(80, 1), <<>>)

canonical_cols == <<"Canonical Link Element 1", "Canonical", "Canonical URL">>

canonical_score(d) ==
  LET c == FirstPresent(d, canonical_cols)
      found == IF c # "" THEN NotnaPct(d, c) ELSE Rat(0, 1)
      s == IF ~IsNaN(found) /\ found.num = 0 THEN Rat(75, 1) ELSE found
  IN Block(s, Floor(s, 70, "Improper or missing canonical tags."))

\* The remaining technical blocks feed detailed_analysis only; what reaches
\* the returned score, mapping and weaknesses is whether they raise
img_opt_score(d) ==
  IF Has(d, "Images over 100kb")
  THEN IF HasStr(d, "Images over 100kb") \/ (Has(d, "Images") /\ HasStr(d, "Images"))
       THEN Raise ELSE Block(Rat(0, 1), <<>>)
  ELSE IF Has(d, "Image Size")
  THEN IF HasStr(d, "Image Size") THEN Raise ELSE Block(Rat(0, 1), <<>>)
  ELSE Block(Rat(60, 1), <<>>)

sitemap_score(d) ==
  IF Has(d, "XML Sitemap") THEN Block(NotnaPct(d, "XML Sitemap"), <<>>)
  ELSE IF Has(d, "Sitemap") THEN Block(EqualsStrPct(d, "Sitemap", "Yes"), <<>>)
  ELSE Block(Rat(100, 1), <<>>)

robots_score(d) ==
  IF Has(d, "Robots.txt") THEN Block(EqualsStrPct(d, "Robots.txt", "Allow"), <<>>)
  ELSE Block(Rat(100, 1), <<>>)

\* df[c].str.startswith('https://', na=False).mean() * 100; a string cell
\* models its URL by its scheme prefix
HttpsPct(d, c) ==
  Pct(Cardinality({i \in Rows(d) : Cell(d, c, i).k = "str" /\ Cell(d, c, i).s = "https://"}),
      d.rows)

https_score(d) ==
  IF Has(d, "Address")
  THEN IF StrAccessorRaises(d, "Address") THEN Raise ELSE Block(HttpsPct(d, "Address"), <<>>)
  ELSE IF Has(d, "URL")
  THEN IF StrAccessorRaises(d, "URL") THEN Raise ELSE Block(HttpsPct(d, "URL"), <<>>)
  ELSE Block(Rat(100, 1), <<>>)

hreflang_score(d) ==
  IF Has(d, "Hreflang") THEN Block(NotnaPct(d, "Hreflang"), <<>>)
  ELSE Block(Rat(90, 1), <<>>)

analyze_technical_seo(d) ==
  Result(<<response_score(d), status_score(d), index_score(d), canonical_score(d)>>,
         <<"response_time", "status_codes", "indexability", "canonical_tags">>,
         <<img_opt_score(d), sitemap_score(d), robots_score(d), https_score(d),
           hreflang_score(d)>>)

----
(* SEOScorer.analyze_user_experience *)

mobile_score(d) ==
  LET s == IF Has(d, "Mobile Friendly") THEN EqualsStrPct(d, "Mobile Friendly", "Yes")
           ELSE IF Has(d, "Mobile Alternate Link") THEN NotnaPct(d, "Mobile Alternate Link")
           ELSE IF Has(d, "Viewport") THEN NotnaPct(d, "Viewport")
           ELSE Rat(60, 1)
  IN Block(s, Floor(s, 50, "Pages not mobile-friendly."))

structured_data_cols == <<"Schema.org Microdata", "JSON-LD", "Structured Data", "Rich Snippets">>

rich_score(d) ==
  LET c == FirstPresent(d, structured_data_cols)
      found == IF c # "" THEN NotnaPct(d, c) ELSE Rat(0, 1)
  IN Block(IF ~IsNaN(found) /\ found.num = 0 THEN Rat(45, 1) ELSE found, <<>>)

\* lcp_score with the 'LCP' column compared with 2500
lcp_score_ms(d) ==
  IF Has(d, "Largest Contentful Paint Time (ms)")
  THEN IF HasStr(d, "Largest Contentful Paint Time (ms)") THEN Raise
       ELSE Block(AtMostPct(d, "Largest Contentful Paint Time (ms)", 2500),
                  Floor(AtMostPct(d, "Largest Contentful Paint Time (ms)", 2500), 50,
                        "Slow LCP times."))
  ELSE IF Has(d, "LCP")
  THEN IF HasStr(d, "LCP") THEN Raise
       ELSE Block(AtMostPct(d, "LCP", 25000),
                  Floor(AtMostPct(d, "LCP", 25000), 50, "Slow LCP times."))
  ELSE IF Has(d, "Response Time")
  THEN IF HasStr(d, "Response Time") THEN Raise
       ELSE Block(SpeedScore(d, "Response Time", 20, 10), <<>>)
  ELSE Block(Rat(55, 1), <<>>)

\* 'LCP' in tenths of a second: <= 2.5 is <= 25
lcp_score(d) ==
  IF Has(d, "Largest Contentful Paint Time (ms)")
  THEN IF HasStr(d, "Largest Contentful Paint Time (ms)") THEN Raise
       ELSE Block(AtMostPct(d, "Largest Contentful Paint Time (ms)", 2500),
                  Floor(AtMostPct(d, "Largest Contentful Paint Time (ms)", 2500), 50,
                        "Slow LCP times."))
  ELSE IF Has(d, "LCP")
  THEN IF HasStr(d, "LCP") THEN Raise
       ELSE Block(AtMostPct(d, "LCP", 25), Floor(AtMostPct(d, "LCP", 25), 50, "Slow LCP times."))
  ELSE IF Has(d, "Response Time")
  THEN IF HasStr(d, "Response Time") THEN Raise
       ELSE Block(SpeedScore(d, "Response Time", 20, 10), <<>>)
  ELSE Block(Rat(55, 1), <<>>)

\* 'Cumulative Layout Shift' and 'CLS' in hundredths: <= 0.1 is <= 10
ClsOf(d, c) ==
  IF HasStr(d, c) THEN Raise
  ELSE Block(AtMostPct(d, c, 10), Floor(AtMostPct(d, c, 10), 50, "High CLS values."))

cls_score(d) ==
  IF Has(d, "Cumulative Layout Shift") THEN ClsOf(d, "Cumulative Layout Shift")
  ELSE IF Has(d, "CLS") THEN ClsOf(d, "CLS")
  ELSE Block(Rat(70, 1), <<>>)

analyze_user_experience(d) ==
  Result(<<mobile_score(d), lcp_score(d), cls_score(d)>>,
         <<"mobile_friendly", "largest_contentful_paint", "cumulative_layout_shift">>,
         <<rich_score(d)>>)

----
(* SEOScorer.calculate_overall_score and summarize_category *)

\* the weights of SEOScorer.__init__ in tenths: 0.4, 0.4, 0.2
weights == [content_seo |-> 4, technical_seo |-> 4, user_experience |-> 2]

calculate_overall_score_unweighted(content_score, technical_score, ux_score) ==
  Round(content_score + technical_score + ux_score, 3)

calculate_overall_score_signslip(content_score, technical_score, ux_score) ==
  Round(content_score * weights.content_seo + technical_score * weights.technical_seo
          - ux_score * weights.user_experience, 10)

\* round((c/100*0.4 + t/100*0.4 + u/100*0.2) * 100)
calculate_overall_score(content_score, technical_score, ux_score) ==
  Round(content_score * weights.content_seo + technical_score * weights.technical_seo
          + ux_score * weights.user_experience, 10)

\* the summary of a weakness list: its "- issue" lines, or the fixed sentence
summarize_category(weaknesses) ==
  IF weaknesses # <<>> THEN [i \in 1..Len(weaknesses) |-> "- " \o weaknesses[i]]
  ELSE <<"No major issues detected.">>

----
(* SEOScorer.analyze_offpage_seo: it returns detailed_analysis only; what   *)
(* reaches main's results is whether it raises                              *)

authority_cols == <<"Domain Authority", "Page Authority", "Trust Score">>
backlink_cols == <<"External Inlinks", "Backlinks", "Referring Domains">>

analyze_offpage_seo(d) ==
  LET a == FirstPresent(d, authority_cols)
      b == FirstPresent(d, backlink_cols)
  IN [err |-> (a # "" /\ HasStr(d, a)) \/ (b # "" /\ HasStr(d, b))]

----
(* sanitize_sheet_name and safe_file_name.  A name is a sequence of          *)
(* characters, a character a string of length one.  File names hold no      *)
(* line break, so `$` matches at the end of the name only.                  *)

Chars(n, ch) == [k \in 1..n |-> ch]
Sheet1 == <<"S", "h", "e", "e", "t", "1">>

\* str.lower() on the letters of the names of the model
Lower(ch) ==
  CASE ch = "C" -> "c" [] ch = "S" -> "s" [] ch = "V" -> "v" [] ch = "X" -> "x"
    [] ch = "L" -> "l" [] ch = "A" -> "a" [] ch = "B" -> "b" [] OTHER -> ch
Extensions == {<<".", "c", "s", "v">>, <<".", "x", "l", "s", "x">>, <<".", "x", "l", "s">>}
EndsWith(name, ext) ==
  /\ Len(name) >= Len(ext)
  /\ \A k \in 1..Len(ext) : Lower(name[Len(name) - Len(ext) + k]) = ext[k]

\* re.sub(r'\.(csv|xlsx|xls)$', '', name, flags=re.IGNORECASE): a name ends
\* with at most one of the three
RemoveExtension(name) ==
  IF \E ext \in Extensions : EndsWith(name, ext)
  THEN LET ext == CHOOSE x \in Extensions : EndsWith(name, x)
       IN SubSeq(name, 1, Len(name) - Len(ext))
  ELSE name

InvalidChars == {"[", "]", ":", "*", "?", "/", "\\"}
\* re.sub(r'[\[\]:*?/\\]', '_', name)
ReplaceInvalid(name) ==
  [k \in 1..Len(name) |-> IF name[k] \in InvalidChars THEN "_" ELSE name[k]]

\* re.sub(r'[<>"|]', '', name)
RemoveProblematic(name) == SelectSeq(name, LAMBDA ch : ch \notin {"<", ">", "\"", "|"})

\* Truncate that keeps 31 characters before the dots
Truncate_late(name) ==
  IF Len(name) > 31 THEN SubSeq(name, 1, 31) \o <<".", ".", ".">> ELSE name

\* if len(name) > 31: name = name[:28] + "..."
Truncate(name) ==
  IF Len(name) > 31 THEN SubSeq(name, 1, 28) \o <<".", ".", ".">> ELSE name

\* str.strip(): without the leading and trailing characters of a set
RECURSIVE StripOf(_, _)
StripOf(name, set) ==
  IF name = <<>> THEN name
  ELSE IF Head(name) \in set THEN StripOf(Tail(name), set)
  ELSE IF name[Len(name)] \in set THEN StripOf(SubSeq(name, 1, Len(name) - 1), set)
  ELSE name
Whitespace == {" ", "\t", "\n", "\r"}

sanitize_sheet_name(name) ==
  LET given == IF name = <<>> THEN Sheet1 ELSE name
      cut == Truncate(RemoveProblematic(ReplaceInvalid(RemoveExtension(given))))
  IN StripOf(IF StripOf(cut, Whitespace) = <<>> THEN Sheet1 ELSE cut, Whitespace)

\* \w, '-', '_' and '.' among the characters of the names of the model
SafeChars ==
  {"a", "b", "c", "s", "v", "x", "l", "A", "B", "C", "S", "V", "X", "L", "1", "_", "-", "."}

\* re.sub(r'_+', '_', name)
RECURSIVE CollapseUnderscores(_)
CollapseUnderscores(name) ==
  IF Len(name) < 2 THEN name
  ELSE IF name[1] = "_" /\ name[2] = "_" THEN CollapseUnderscores(Tail(name))
  ELSE <<Head(name)>> \o CollapseUnderscores(Tail(name))

safe_file_name(name) ==
  LET given == IF name = <<>> THEN <<"f", "i", "l", "e">> ELSE name
      base == RemoveExtension(given)
      safe == [k \in 1..Len(base) |-> IF base[k] \in SafeChars THEN base[k] ELSE "_"]
      out == StripOf(CollapseUnderscores(safe), {"_"})
  IN IF out = <<>> THEN <<"f", "i", "l", "e">> ELSE out

----
(* Bounded input tables *)

MaxCols == 2
MaxRows == 2
MaxRowsSignal == 5
MaxFiles == 3
MaxRowsCount == 23
MaxPad == 31

ContentColumns ==
  {"Title 1", "Title 1 Length", "Meta Description 1", "Meta Description 1 Length",
   "H1-1", "H1", "Schema.org Microdata", "JSON-LD", "Structured Data", "Schema",
   "Keyword Density", "Keywords", "Primary Keyword", "Images", "Images Missing Alt Text",
   "Images without Alt Text", "Inlinks", "Internal Links", "Word Count",
   "Flesch Reading Ease Score"}

TechnicalColumns ==
  {"Response Time", "Mobile Speed", "Page Speed", "Status Code", "HTTP Status Code",
   "Indexability", "Indexable", "Canonical Link Element 1", "Canonical", "Canonical URL",
   "Images over 100kb", "Images", "Image Size", "XML Sitemap", "Sitemap", "Robots.txt",
   "Address", "URL", "Hreflang"}

UXColumns ==
  {"Mobile Friendly", "Mobile Alternate Link", "Viewport", "Schema.org Microdata", "JSON-LD",
   "Structured Data", "Rich Snippets", "Largest Contentful Paint Time (ms)", "LCP",
   "Response Time", "Cumulative Layout Shift", "CLS"}

\* a column no scorer reads
Unrecognised == {"Crawl Depth"}

\* well-typed cell values of each column, around the thresholds of the code
Dom ==
  [c \in ContentColumns \cup TechnicalColumns \cup UXColumns \cup Unrecognised |->
  CASE c = "Title 1 Length" -> {Num(30), Num(61)}
    [] c = "Meta Description 1 Length" -> {Num(119), Num(160)}
    [] c \in {"Inlinks", "Internal Links"} -> {Num(0), Num(3)}
    [] c = "Word Count" -> {Num(299), Num(300)}
    [] c = "Flesch Reading Ease Score" -> {Num(59), Num(60)}
    [] c = "Images" -> {Num(0), Num(4)}
    [] c \in {"Images Missing Alt Text", "Images over 100kb"} -> {NULL, Num(1)}
    [] c = "Images without Alt Text" -> {Num(0), Num(2)}
    [] c = "Response Time" -> {Num(-5), Num(10), Num(60)}
    [] c = "Page Speed" -> {Num(-10), Num(25), Num(120)}
    [] c = "Mobile Speed" -> {Num(20), Num(40)}
    [] c \in {"Status Code", "HTTP Status Code"} -> {Num(200), Num(404)}
    [] c = "Indexability" -> {Str("Indexable"), Str("Non-Indexable")}
    [] c \in {"Indexable", "Sitemap", "Mobile Friendly"} -> {Str("Yes"), Str("No")}
    [] c = "Image Size" -> {Num(50000), Num(200000)}
    [] c = "Robots.txt" -> {Str("Allow"), Str("Disallow")}
    [] c \in {"Address", "URL"} -> {NULL, Str("https://")}
    [] c = "Largest Contentful Paint Time (ms)" -> {Num(2500), Num(2501)}
    [] c = "LCP" -> {Num(25), Num(26)}
    [] c \in {"Cumulative Layout Shift", "CLS"} -> {Num(10), Num(11)}
    [] c \in Unrecognised -> {Str("x")}
    [] OTHER -> {NULL, Str("x")}]

\* cell values for the tables of the single-signal scenarios
DomSignal ==
  [c \in {"Title 1", "Title 1 Length", "Status Code"} |->
  CASE c = "Title 1 Length" -> {Num(29), Num(30), Num(60), Num(61)}
    [] c = "Status Code" -> {NULL, Num(200), Num(301), Num(404)}
    [] OTHER -> {NULL, Str("x")}]

\* cell values for the tables with text in a numeric column
DomMalformed ==
  [c \in {"Title 1", "Title 1 Length", "Response Time"} |->
  CASE c = "Title 1 Length" -> {Num(30), Num(61), Str("abc")}
    [] c = "Response Time" -> {Num(10), Num(60), Str("abc")}
    [] OTHER -> {NULL, Str("x")}]

\* cell values for the two LCP columns: milliseconds, and tenths of a second
\* (2.0, 2.5, 2.6 and 2000.0)
DomLcp ==
  [c \in {"Largest Contentful Paint Time (ms)", "LCP"} |->
  CASE c = "LCP" -> {Num(20), Num(25), Num(26), Num(20000)}
    [] OTHER -> {NULL, Num(2400), Num(2500), Num(2600)}]

\* the passing and the failing cell value of a column, for the tables given
\* by their number of rows and of passing rows
DomCount ==
  [c \in {"Status Code", "Indexability", "H1-1", "Mobile Friendly"} |->
  CASE c = "Status Code" -> <<Num(200), Num(404)>>
    [] c = "Indexability" -> <<Str("Indexable"), Str("Non-Indexable")>>
    [] c = "Mobile Friendly" -> <<Str("Yes"), Str("No")>>
    [] OTHER -> <<Str("x"), NULL>>]

AliasColumns ==
  {"H1-1", "H1", "Indexability", "Indexable",
   "Canonical Link Element 1", "Canonical", "Canonical URL"}

RECURSIVE SubsetsUpTo(_, _)
SubsetsUpTo(cols, k) ==
  IF k = 0 THEN {{}}
  ELSE LET P == SubsetsUpTo(cols, k - 1) IN P \cup {q \cup {c} : q \in P, c \in cols}

\* every assignment of n cells to each column of S, the cells of column c in dom[c]
RECURSIVE Columns(_, _, _)
Columns(S, n, dom) ==
  IF S = {} THEN {[c \in {} |-> <<>>]}
  ELSE LET c == CHOOSE x \in S : TRUE
       IN {[x \in S |-> IF x = c THEN v ELSE g[x]] :
             g \in Columns(S \ {c}, n, dom), v \in [1..n -> dom[c]]}

----
(* main(): the batch loop over the uploaded files (lines 818-868) and the   *)
(* Performance Overview tab built from comparison_data (lines 870-1018)     *)

\* an uploaded file: its name, whether read_csv / read_excel loads it, and the
\* table it loads to
File(name, readable, table) == [name |-> name, readable |-> readable, table |-> table]

NoTable == [rows |-> 0, col |-> [c \in {} |-> <<>>]]
ScoreOnly(x) == [ran |-> TRUE, err |-> FALSE, score |-> x, scores |-> [c \in {} |-> 0], weaknesses |-> <<>>]

TypeOK ==
  /\ pc \in {"start", "loaded", "scored", "done", "error", "rendered", "empty",
            "exported", "export_error", "name", "named"}
  /\ overall_score \in -1..200
  /\ file_index \in 0..Len(uploaded_files)
  /\ Len(comparison_data) <= Len(uploaded_files)
  /\ Len(detailed_analyses) = Len(comparison_data)

\* the dictionary appended to comparison_data for a scored file
Entry(name, c, t, u, overall) ==
  [file_name |-> name,
   content_score |-> c.score,
   technical_score |-> t.score,
   ux_score |-> u.score,
   overall_score |-> overall,
   content_summary |-> summarize_category(c.weaknesses),
   technical_summary |-> summarize_category(t.weaknesses),
   ux_summary |-> summarize_category(u.weaknesses),
   content_details |-> c.scores,
   technical_details |-> t.scores,
   ux_details |-> u.scores]

\* LoadFile with the read outside the try block: the exception ends the loop
LoadFile_abort ==
  /\ pc \in {"start", "done", "error"}
  /\ file_index < Len(uploaded_files)
  /\ LET f == uploaded_files[file_index + 1]
     IN IF f.readable
        THEN /\ df' = f.table
             /\ pc' = "loaded"
             /\ UNCHANGED <<file_index, errors>>
        ELSE /\ pc' = "error"
             /\ file_index' = Len(uploaded_files)
             /\ errors' = Append(errors, f.name)
             /\ UNCHANGED df
  /\ UNCHANGED <<content, technical, ux, overall_score, comparison_data,
                 detailed_analyses, cards, uploaded_files, raw_name, sheets>>

\* the head of one iteration: the file is read; a file that cannot be read
\* raises inside the try block, the error is reported and the loop continues
LoadFile ==
  /\ pc \in {"start", "done", "error"}
  /\ file_index < Len(uploaded_files)
  /\ LET f == uploaded_files[file_index + 1]
     IN IF f.readable
        THEN /\ df' = f.table
             /\ pc' = "loaded"
             /\ UNCHANGED <<file_index, errors>>
        ELSE /\ pc' = "error"
             /\ file_index' = file_index + 1
             /\ errors' = Append(errors, f.name)
             /\ UNCHANGED df
  /\ UNCHANGED <<content, technical, ux, overall_score, comparison_data,
                 detailed_analyses, cards, uploaded_files, raw_name, sheets>>

\* AnalyzeFile with one scorer for the whole batch that keeps its weakness
\* list between calls
AnalyzeFile_shared ==
  /\ pc = "loaded"
  /\ content' = LET r == analyze_content_seo(df)
                IN [r EXCEPT !.weaknesses = content.weaknesses \o @]
  /\ technical' = IF content'.err THEN NotRun ELSE analyze_technical_seo(df)
  /\ ux' = IF content'.err \/ technical'.err THEN NotRun ELSE analyze_user_experience(df)
  /\ LET failed == content'.err \/ technical'.err \/ ux'.err \/ analyze_offpage_seo(df).err
         name == uploaded_files[file_index + 1].name
     IN /\ pc' = IF failed THEN "error" ELSE "done"
        /\ overall_score' = IF failed THEN -1
                            ELSE calculate_overall_score(content'.score, technical'.score,
                                                         ux'.score)
        /\ comparison_data' =
             IF failed THEN comparison_data
             ELSE Append(comparison_data,
                         Entry(name, content', technical', ux', overall_score'))
        /\ detailed_analyses' =
             IF failed THEN detailed_analyses
             ELSE Append(detailed_analyses,
                         [file_name |-> name, overall_score |-> overall_score'])
        /\ errors' = IF failed THEN Append(errors, name) ELSE errors
  /\ file_index' = file_index + 1
  /\ UNCHANGED <<df, uploaded_files, cards, raw_name, sheets>>

\* AnalyzeFile with the audit entry stored after the except clause
AnalyzeFile_unpaired ==
  /\ pc = "loaded"
  /\ content' = analyze_content_seo(df)
  /\ technical' = IF content'.err THEN NotRun ELSE analyze_technical_seo(df)
  /\ ux' = IF content'.err \/ technical'.err THEN NotRun ELSE analyze_user_experience(df)
  /\ LET failed == content'.err \/ technical'.err \/ ux'.err \/ analyze_offpage_seo(df).err
         name == uploaded_files[file_index + 1].name
     IN /\ pc' = IF failed THEN "error" ELSE "done"
        /\ overall_score' = IF failed THEN -1
                            ELSE calculate_overall_score(content'.score, technical'.score,
                                                         ux'.score)
        /\ comparison_data' =
             IF failed THEN comparison_data
             ELSE Append(comparison_data,
                         Entry(name, content', technical', ux', overall_score'))
        /\ detailed_analyses' =
             Append(detailed_analyses, [file_name |-> name, overall_score |-> overall_score'])
        /\ errors' = IF failed THEN Append(errors, name) ELSE errors
  /\ file_index' = file_index + 1
  /\ UNCHANGED <<df, uploaded_files, cards, raw_name, sheets>>

\* the rest of the iteration, on the loaded table.  An exception leaves the try
\* block: the later scorers do not run, nothing is appended, the error is
\* reported and the loop continues with the next file
AnalyzeFile ==
  /\ pc = "loaded"
  /\ content' = analyze_content_seo(df)
  /\ technical' = IF content'.err THEN NotRun ELSE analyze_technical_seo(df)
  /\ ux' = IF content'.err \/ technical'.err THEN NotRun ELSE analyze_user_experience(df)
  /\ LET failed == content'.err \/ technical'.err \/ ux'.err \/ analyze_offpage_seo(df).err
         name == uploaded_files[file_index + 1].name
     IN /\ pc' = IF failed THEN "error" ELSE "done"
        /\ overall_score' = IF failed THEN -1
                            ELSE calculate_overall_score(content'.score, technical'.score,
                                                         ux'.score)
        /\ comparison_data' =
             IF failed THEN comparison_data
             ELSE Append(comparison_data,
                         Entry(name, content', technical', ux', overall_score'))
        /\ detailed_analyses' =
             IF failed THEN detailed_analyses
             ELSE Append(detailed_analyses,
                         [file_name |-> name, overall_score |-> overall_score'])
        /\ errors' = IF failed THEN Append(errors, name) ELSE errors
  /\ file_index' = file_index + 1
  /\ UNCHANGED <<df, uploaded_files, cards, raw_name, sheets>>

\* calculate_overall_score applied to three category scores
CalculateOverall ==
  /\ pc = "scored"
  /\ overall_score' = calculate_overall_score(content.score, technical.score, ux.score)
  /\ pc' = "done"
  /\ UNCHANGED <<df, content, technical, ux, comparison_data, uploaded_files, file_index,
                 errors, detailed_analyses, cards, raw_name, sheets>>

\* sorted(comparison_data, key=Overall Readiness, reverse=True): Python's sort
\* is stable, also under reverse=True
\* InsertByScore that puts an entry before the entries of equal score
RECURSIVE InsertByScore_unstable(_, _)
InsertByScore_unstable(s, e) ==
  IF s = <<>> THEN <<e>>
  ELSE IF Head(s).overall_score > e.overall_score
  THEN <<Head(s)>> \o InsertByScore_unstable(Tail(s), e)
  ELSE <<e>> \o s

RECURSIVE InsertByScore(_, _)
InsertByScore(s, e) ==
  IF s = <<>> THEN <<e>>
  ELSE IF Head(s).overall_score >= e.overall_score THEN <<Head(s)>> \o InsertByScore(Tail(s), e)
  ELSE <<e>> \o s

RECURSIVE sorted_data(_)
sorted_data(data) ==
  IF data = <<>> THEN <<>>
  ELSE InsertByScore(sorted_data(SubSeq(data, 1, Len(data) - 1)), data[Len(data)])

\* the colour of a site's score circle, line 934
score_color(score) ==
  IF score < 50 THEN "#dc3545" ELSE IF score < 80 THEN "#ffc107" ELSE "#28a745"

\* the Scoring Legend printed under the cards, lines 972-1011
ScoringLegend ==
  <<[lo |-> 0, hi |-> 49, color |-> "#dc3545", label |-> "Poor"],
    [lo |-> 50, hi |-> 89, color |-> "#ffc107", label |-> "Good"],
    [lo |-> 90, hi |-> 100, color |-> "#28a745", label |-> "Excellent"]>>

\* RenderTabs without the test of comparison_data
RenderTabs_always ==
  /\ pc \in {"start", "done", "error"}
  /\ file_index = Len(uploaded_files)
  /\ IF TRUE
     THEN /\ pc' = "rendered"
          /\ cards' = LET s == sorted_data(comparison_data)
                      IN [k \in 1..Len(s) |->
                            [file_name |-> s[k].file_name,
                             overall_score |-> s[k].overall_score,
                             score_color |-> score_color(s[k].overall_score)]]
          /\ UNCHANGED errors
     ELSE /\ pc' = "empty"
          /\ errors' = Append(errors, "No files were successfully processed. Please check your file formats and try again.")
          /\ UNCHANGED cards
  /\ UNCHANGED <<df, content, technical, ux, overall_score, comparison_data,
                 uploaded_files, file_index, detailed_analyses, raw_name, sheets>>

\* after the loop: the tabs are built when at least one file was scored, the
\* cards of the Performance Overview in descending order of overall score;
\* otherwise one error is shown
RenderTabs ==
  /\ pc \in {"start", "done", "error"}
  /\ file_index = Len(uploaded_files)
  /\ IF comparison_data # <<>>
     THEN /\ pc' = "rendered"
          /\ cards' = LET s == sorted_data(comparison_data)
                      IN [k \in 1..Len(s) |->
                            [file_name |-> s[k].file_name,
                             overall_score |-> s[k].overall_score,
                             score_color |-> score_color(s[k].overall_score)]]
          /\ UNCHANGED errors
     ELSE /\ pc' = "empty"
          /\ errors' = Append(errors, "No files were successfully processed. Please check your file formats and try again.")
          /\ UNCHANGED cards
  /\ UNCHANGED <<df, content, technical, ux, overall_score, comparison_data,
                 uploaded_files, file_index, detailed_analyses, raw_name, sheets>>

\* the worksheets of the workbook after the sheets `names` are written in
\* turn: to_excel writes to the worksheet of that name when the workbook has
\* one, and adding a name that differs from an existing one by case only
\* raises
RECURSIVE WriteSheets(_, _)
WriteSheets(names, written) ==
  IF names = <<>> THEN [ok |-> TRUE, sheets |-> written]
  ELSE LET s == Head(names)
           low(x) == [k \in 1..Len(x) |-> Lower(x[k])]
       IN IF \E k \in 1..Len(written) : written[k] = s
          THEN WriteSheets(Tail(names), written)
          ELSE IF \E k \in 1..Len(written) : low(written[k]) = low(s)
          THEN [ok |-> FALSE, sheets |-> written]
          ELSE WriteSheets(Tail(names), Append(written, s))

\* the bulk export of the audit tables, lines 1208-1297: one sheet per entry
\* of detailed_analyses, named after its file; an exception is reported and no
\* download is offered
ExportAll ==
  /\ pc = "rendered"
  /\ LET names == [k \in 1..Len(detailed_analyses) |->
                     sanitize_sheet_name(safe_file_name(detailed_analyses[k].file_name))]
         w == WriteSheets(names, <<>>)
     IN /\ sheets' = w.sheets
        /\ pc' = IF w.ok THEN "exported" ELSE "export_error"
        /\ errors' = IF w.ok THEN errors
                     ELSE Append(errors, "Error creating bulk Excel file")
  /\ UNCHANGED <<df, content, technical, ux, overall_score, comparison_data,
                 uploaded_files, file_index, detailed_analyses, cards, raw_name>>

\* sanitize_sheet_name applied to a name
SanitizeSheetName ==
  /\ pc = "name"
  /\ sheets' = <<sanitize_sheet_name(raw_name)>>
  /\ pc' = "named"
  /\ UNCHANGED <<df, content, technical, ux, overall_score, comparison_data,
                 uploaded_files, file_index, errors, detailed_analyses, cards, raw_name>>

\* one uploaded file, loaded to a table with 1..maxc of the columns cols and
\* 1..maxr rows
InitOn(cols, maxc, maxr, dom) ==
  /\ \E S \in SubsetsUpTo(cols, maxc) \ {{}}, n \in 1..maxr :
       \E f \in Columns(S, n, dom) : df = [rows |-> n, col |-> f]
  /\ pc = "loaded"
  /\ content = NotRun
  /\ technical = NotRun
  /\ ux = NotRun
  /\ overall_score = -1
  /\ comparison_data = <<>>
  /\ uploaded_files = <<File("site.csv", TRUE, df)>>
  /\ file_index = 0
  /\ errors = <<>>
  /\ detailed_analyses = <<>>
  /\ cards = <<>>
  /\ raw_name = <<>>
  /\ sheets = <<>>

\* tables for one scorer each: some of its columns and the unrecognised one
Init ==
  \/ InitOn(ContentColumns \cup Unrecognised, MaxCols, MaxRows, Dom)
  \/ InitOn(TechnicalColumns \cup Unrecognised, MaxCols, MaxRows, Dom)
  \/ InitOn(UXColumns \cup Unrecognised, MaxCols, MaxRows, Dom)

\* tables of the single-signal scenarios: title with its length, status code
InitSignal ==
  \/ InitOn({"Title 1", "Title 1 Length"}, 2, MaxRowsSignal, DomSignal)
  \/ InitOn({"Status Code"}, 1, MaxRowsSignal, DomSignal)

\* tables with text in 'Title 1 Length' or 'Response Time'
InitMalformed == InitOn({"Title 1", "Title 1 Length", "Response Time"}, 2, MaxRows, DomMalformed)

\* tables that supply a signal under one of its column names
InitAlias ==
  \/ InitOn(AliasColumns, 2, MaxRowsSignal, Dom)
  \/ InitOn({"Largest Contentful Paint Time (ms)", "LCP"}, 1, MaxRowsSignal, DomLcp)

\* a file with a header line only: some recognised columns, no rows
InitEmpty ==
  /\ \E S \in SubsetsUpTo(ContentColumns \cup TechnicalColumns \cup UXColumns, MaxCols) \ {{}} :
       df = [rows |-> 0, col |-> [c \in S |-> <<>>]]
  /\ pc = "loaded"
  /\ content = NotRun
  /\ technical = NotRun
  /\ ux = NotRun
  /\ overall_score = -1
  /\ comparison_data = <<>>
  /\ uploaded_files = <<File("site.csv", TRUE, df)>>
  /\ file_index = 0
  /\ errors = <<>>
  /\ detailed_analyses = <<>>
  /\ cards = <<>>
  /\ raw_name = <<>>
  /\ sheets = <<>>

\* one column of n rows of which the first k pass: the scorers take means
\* over the rows, so the order of the rows does not matter
InitCounts ==
  /\ \E c \in DOMAIN DomCount, n \in 1..MaxRowsCount :
       \E k \in 0..n :
         df = [rows |-> n,
               col |-> [x \in {c} |->
                          [r \in 1..n |-> IF r <= k THEN DomCount[c][1] ELSE DomCount[c][2]]]]
  /\ pc = "loaded"
  /\ content = NotRun
  /\ technical = NotRun
  /\ ux = NotRun
  /\ overall_score = -1
  /\ comparison_data = <<>>
  /\ uploaded_files = <<File("site.csv", TRUE, df)>>
  /\ file_index = 0
  /\ errors = <<>>
  /\ detailed_analyses = <<>>
  /\ cards = <<>>
  /\ raw_name = <<>>
  /\ sheets = <<>>

InitOverall ==
  /\ df = NoTable
  /\ pc = "scored"
  /\ content \in {ScoreOnly(x) : x \in 0..100}
  /\ technical \in {ScoreOnly(x) : x \in 0..100}
  /\ ux \in {ScoreOnly(x) : x \in 0..100}
  /\ overall_score = -1
  /\ comparison_data = <<>>
  /\ uploaded_files = <<>>
  /\ file_index = 0
  /\ errors = <<>>
  /\ detailed_analyses = <<>>
  /\ cards = <<>>
  /\ raw_name = <<>>
  /\ sheets = <<>>

TitleTable ==
  [rows |-> 2,
   col |-> [c \in {"Title 1", "Title 1 Length"} |->
              IF c = "Title 1" THEN <<Str("x"), Str("x")>> ELSE <<Num(29), Num(61)>>]]
StatusTable ==
  [rows |-> 2,
   col |-> [c \in {"H1-1", "Status Code"} |->
              IF c = "H1-1" THEN <<Str("x"), Str("x")>> ELSE <<Num(200), Num(200)>>]]

\* the files of the batch scenarios: two that are scored with different
\* results, a second copy of the first under another name, one that cannot be
\* read, and one whose 'Response Time' column holds text
BatchFiles ==
  {File("a.csv", TRUE, TitleTable),
   File("b.xlsx", TRUE, StatusTable),
   File("a2.csv", TRUE, TitleTable),
   File("c.csv", FALSE, NoTable),
   File("d.xlsx", TRUE, [rows |-> 1, col |-> [c \in {"Response Time"} |-> <<Str("fast")>>]])}

\* main() after the upload of 1..MaxFiles files, before the loop
InitBatch ==
  /\ \E n \in 1..MaxFiles : uploaded_files \in [1..n -> BatchFiles]
  /\ pc = "start"
  /\ df = NoTable
  /\ content = NotRun
  /\ technical = NotRun
  /\ ux = NotRun
  /\ overall_score = -1
  /\ comparison_data = <<>>
  /\ file_index = 0
  /\ errors = <<>>
  /\ detailed_analyses = <<>>
  /\ cards = <<>>
  /\ raw_name = <<>>
  /\ sheets = <<>>

\* main() after the loop over one file whose three category scores are x
InitRender ==
  /\ \E x \in 0..100 :
       /\ content = ScoreOnly(x)
       /\ technical = ScoreOnly(x)
       /\ ux = ScoreOnly(x)
       /\ overall_score = calculate_overall_score(x, x, x)
  /\ comparison_data = <<Entry("site.csv", content, technical, ux, overall_score)>>
  /\ detailed_analyses = <<[file_name |-> "site.csv", overall_score |-> overall_score]>>
  /\ uploaded_files = <<File("site.csv", TRUE, NoTable)>>
  /\ df = NoTable
  /\ pc = "done"
  /\ file_index = 1
  /\ errors = <<>>
  /\ cards = <<>>
  /\ raw_name = <<>>
  /\ sheets = <<>>

\* the names given to sanitize_sheet_name: up to two characters, 0..MaxPad
\* letters, up to two characters and an extension or none
NameChars == {"a", " ", ":", "<", "."}
NameEnds == UNION {[1..n -> NameChars] : n \in 0..2}
NameExtensions ==
  {<<>>, <<".", "c", "s", "v">>, <<".", "X", "L", "S", "X">>, <<".", "x", "l", "s">>}

InitSheetName ==
  /\ \E head \in NameEnds, n \in 0..MaxPad, tail \in NameEnds, ext \in NameExtensions :
       raw_name = head \o Chars(n, "a") \o tail \o ext
  /\ pc = "name"
  /\ sheets = <<>>
  /\ df = NoTable
  /\ content = NotRun
  /\ technical = NotRun
  /\ ux = NotRun
  /\ overall_score = -1
  /\ comparison_data = <<>>
  /\ uploaded_files = <<>>
  /\ file_index = 0
  /\ errors = <<>>
  /\ detailed_analyses = <<>>
  /\ cards = <<>>

\* the upload names of the export scenarios: "a.csv", "a.xlsx", "a b.csv",
\* "a_b.csv", "A.csv", "b.csv"
ExportNames ==
  {<<"a", ".", "c", "s", "v">>, <<"a", ".", "x", "l", "s", "x">>,
   <<"a", " ", "b", ".", "c", "s", "v">>, <<"a", "_", "b", ".", "c", "s", "v">>,
   <<"A", ".", "c", "s", "v">>, <<"b", ".", "c", "s", "v">>}

\* main() with the tabs built for 1..MaxFiles files that were all scored 50
InitExport ==
  /\ \E n \in 1..MaxFiles :
       \E names \in [1..n -> ExportNames] :
         /\ uploaded_files = [k \in 1..n |-> File(names[k], TRUE, NoTable)]
         /\ comparison_data =
              [k \in 1..n |-> Entry(names[k], ScoreOnly(50), ScoreOnly(50), ScoreOnly(50), 50)]
         /\ detailed_analyses = [k \in 1..n |-> [file_name |-> names[k], overall_score |-> 50]]
         /\ cards = [k \in 1..n |-> [file_name |-> names[k], overall_score |-> 50,
                                     score_color |-> score_color(50)]]
         /\ file_index = n
  /\ pc = "rendered"
  /\ df = NoTable
  /\ content = ScoreOnly(50)
  /\ technical = ScoreOnly(50)
  /\ ux = ScoreOnly(50)
  /\ overall_score = 50
  /\ errors = <<>>
  /\ raw_name = <<>>
  /\ sheets = <<>>

Next == AnalyzeFile

NextSheetName == SanitizeSheetName

NextExport == ExportAll

NextOverall == CalculateOverall

NextBatch == LoadFile \/ AnalyzeFile \/ RenderTabs

NextRender == RenderTabs

Spec == Init /\ [][Next]_vars

SpecSignal == InitSignal /\ [][Next]_vars

SpecMalformed == InitMalformed /\ [][Next]_vars

SpecAlias == InitAlias /\ [][Next]_vars

SpecEmpty == InitEmpty /\ [][Next]_vars

SpecCounts == InitCounts /\ [][Next]_vars

SpecSheetName == InitSheetName /\ [][NextSheetName]_vars

SpecExport == InitExport /\ [][NextExport]_vars

SpecOverall == InitOverall /\ [][NextOverall]_vars

SpecBatch == InitBatch /\ [][NextBatch]_vars

\* the loop runs to its end: the script is not suspended between two files
FairBatch == SpecBatch /\ WF_vars(NextBatch)

SpecRender == InitRender /\ [][NextRender]_vars

----
(* Properties *)

Labels(w) == {w[i] : i \in 1..Len(w)}
Values(m) == {m[x] : x \in DOMAIN m}
Scorers == <<content, technical, ux>>
Returned(r) == r.ran /\ ~r.err
Abs(x) == IF x < 0 THEN -x ELSE x
\* x is an integer nearest to num/den
Nearest(x, num, den) == 2 * Abs(den * x - num) <= den
\* the sum of the values of a mapping
MapSum(m) ==
  LET RECURSIVE S(_)
      S(D) == IF D = {} THEN 0 ELSE LET x == CHOOSE y \in D : TRUE IN m[x] + S(D \ {x})
  IN S(DOMAIN m)

\* C1: every sub-score a scorer returns, every category score and the overall
\* score computed from them lie in 0..100, whatever the columns and the
\* numeric cell values (negative ones included).
C1_ScoresWithinRange ==
  /\ \A i \in 1..3 :
       Returned(Scorers[i]) =>
         /\ Scorers[i].score \in 0..100
         /\ \A v \in Values(Scorers[i].scores) : v \in 0..100
  /\ pc = "done" => overall_score \in 0..100

\* C2: for category scores in 0..100, calculate_overall_score returns the
\* integer nearest to 0.4*content + 0.4*technical + 0.2*ux, which is in
\* 0..100; three scores of 90 give 90.
C2_OverallIsWeightedSum ==
  pc = "done" =>
    /\ overall_score \in 0..100
    /\ Nearest(overall_score, 4 * content.score + 4 * technical.score + 2 * ux.score, 10)
    /\ (content.score = 90 /\ technical.score = 90 /\ ux.score = 90) => overall_score = 90

C2_Witness ==
  /\ pc = "done" /\ df.rows = 0
  /\ content.score = 90 /\ technical.score = 90 /\ ux.score = 90 /\ overall_score = 90

\* C3: raising one category score by one while the other two stay fixed never
\* lowers the overall score.
C3_OverallMonotonic ==
  pc = "done" =>
    /\ content.score < 100 =>
         calculate_overall_score(content.score + 1, technical.score, ux.score) >= overall_score
    /\ technical.score < 100 =>
         calculate_overall_score(content.score, technical.score + 1, ux.score) >= overall_score
    /\ ux.score < 100 =>
         calculate_overall_score(content.score, technical.score, ux.score + 1) >= overall_score

C3_Witness ==
  /\ pc = "done" /\ df.rows = 0
  /\ content.score = 41 /\ technical.score = 70 /\ ux.score = 34
  /\ calculate_overall_score(content.score + 1, technical.score, ux.score) > overall_score
  /\ calculate_overall_score(content.score, technical.score, ux.score + 1) = overall_score

NoneOf(cols) == DOMAIN df.col \cap cols = {}

C5_InsufficientDataWeakness ==
  /\ (Returned(content) /\ NoneOf(ContentColumns)) =>
       "Insufficient data." \in Labels(content.weaknesses)
  /\ (Returned(technical) /\ NoneOf(TechnicalColumns)) =>
       "Insufficient data." \in Labels(technical.weaknesses)
  /\ (Returned(ux) /\ NoneOf(UXColumns)) =>
       "Insufficient data." \in Labels(ux.weaknesses)

\* rows with a non-null 'Title 1' and a 'Title 1 Length' in [30, 60]
GoodTitleRows ==
  {i \in 1..df.rows : df.col["Title 1"][i].k # "null"
                       /\ df.col["Title 1 Length"][i].k = "num"
                       /\ df.col["Title 1 Length"][i].n >= 30
                       /\ df.col["Title 1 Length"][i].n <= 60}

\* C6: with 'Title 1' and 'Title 1 Length' present, meta_title is 100 times
\* the fraction of rows with a non-null title of length in [30, 60], rounded to
\* the nearest integer; at 80% it is 80 and the title weakness is not reported.
C6_MetaTitleFraction ==
  (Returned(content) /\ {"Title 1", "Title 1 Length"} \subseteq DOMAIN df.col) =>
    /\ Nearest(content.scores["meta_title"], 100 * Cardinality(GoodTitleRows), df.rows)
    /\ 5 * Cardinality(GoodTitleRows) = 4 * df.rows =>
         /\ content.scores["meta_title"] = 80
         /\ "Short or missing meta titles." \notin Labels(content.weaknesses)

C6_Witness ==
  /\ Returned(content) /\ {"Title 1", "Title 1 Length"} \subseteq DOMAIN df.col
  /\ df.rows = 5 /\ Cardinality(GoodTitleRows) = 4
  /\ content.scores["meta_title"] = 80

\* rows whose 'Status Code' is 200
OkStatusRows ==
  {i \in 1..df.rows : df.col["Status Code"][i].k = "num" /\ df.col["Status Code"][i].n = 200}

\* C7: with 'Status Code' present, status_codes is the rounded percentage of
\* rows with status 200, and a percentage below 70 puts 'Issues with HTTP
\* status codes.' in the technical weaknesses; 60% gives 60 and the weakness.
C7_StatusCodesFloor ==
  (Returned(technical) /\ "Status Code" \in DOMAIN df.col) =>
    /\ Nearest(technical.scores["status_codes"], 100 * Cardinality(OkStatusRows), df.rows)
    /\ 100 * Cardinality(OkStatusRows) < 70 * df.rows =>
         "Issues with HTTP status codes." \in Labels(technical.weaknesses)
    /\ 5 * Cardinality(OkStatusRows) = 3 * df.rows =>
         technical.scores["status_codes"] = 60

C7_Witness ==
  /\ Returned(technical) /\ "Status Code" \in DOMAIN df.col
  /\ df.rows = 5 /\ Cardinality(OkStatusRows) = 3
  /\ technical.scores["status_codes"] = 60
  /\ "Issues with HTTP status codes." \in Labels(technical.weaknesses)

\* the weakness label that belongs to each content sub-score
ContentLabel ==
  [meta_title |-> "Short or missing meta titles.",
   meta_description |-> "Short or missing meta descriptions.",
   h1_tags |-> "Missing or poorly optimized H1 tags.",
   internal_linking |-> "Insufficient internal linking.",
   content_quality |-> "Low content quality or poor readability."]

\* C8: every content sub-score returned below its floor of 50 has its
\* weakness label in the returned list, whether the value comes from failing
\* rows or from an absent column.
C8_LowContentSubscoreFlagged ==
  Returned(content) =>
    \A nm \in DOMAIN content.scores :
      content.scores[nm] < 50 => ContentLabel[nm] \in Labels(content.weaknesses)

\* C9: a category score is the rounded unweighted mean of exactly the
\* sub-scores of the returned mapping: five for content, four for technical,
\* three for user experience.
C9_CategoryIsMeanOfSubscores ==
  /\ Returned(content) =>
       /\ DOMAIN content.scores = {"meta_title", "meta_description", "h1_tags",
                                   "internal_linking", "content_quality"}
       /\ Nearest(content.score, MapSum(content.scores), 5)
  /\ Returned(technical) =>
       /\ DOMAIN technical.scores = {"response_time", "status_codes", "indexability",
                                     "canonical_tags"}
       /\ Nearest(technical.score, MapSum(technical.scores), 4)
  /\ Returned(ux) =>
       /\ DOMAIN ux.scores = {"mobile_friendly", "largest_contentful_paint",
                              "cumulative_layout_shift"}
       /\ Nearest(ux.score, MapSum(ux.scores), 3)

C9_Witness ==
  /\ pc = "done"
  /\ MapSum(technical.scores) = 210 /\ technical.score = 52
  /\ MapSum(ux.scores) = 185 /\ ux.score = 62

\* C10: a table with at least one row, any subset of the recognised columns
\* and well-typed values is scored by all three scorers without raising.
C10_ScorersNeverRaise ==
  pc # "loaded" =>
    /\ pc = "done"
    /\ Returned(content) /\ Returned(technical) /\ Returned(ux)

\* the table read with its malformed cells absent: text in a numeric column
\* taken as a missing value
MalformedColumns == {"Title 1 Length", "Response Time"}
Malformed(d) == \E c \in MalformedColumns \cap DOMAIN d.col : HasStr(d, c)
WithoutMalformed(d) ==
  [d EXCEPT !.col = [c \in DOMAIN d.col |->
     IF c \in MalformedColumns
     THEN [k \in 1..d.rows |-> IF d.col[c][k].k = "str" THEN NULL ELSE d.col[c][k]]
     ELSE d.col[c]]]

\* C11: a table with a non-numeric value in 'Title 1 Length' or 'Response
\* Time' is still scored and recorded in the results, and its sub-scores are
\* those of the same table with the malformed cells absent.
C11_MalformedCellSkipsRow ==
  (pc # "loaded" /\ Malformed(df)) =>
    /\ pc = "done"
    /\ Len(comparison_data) = 1
    /\ content.scores = analyze_content_seo(WithoutMalformed(df)).scores
    /\ technical.scores = analyze_technical_seo(WithoutMalformed(df)).scores
    /\ ux.scores = analyze_user_experience(WithoutMalformed(df)).scores

\* a file is scored when it can be read and no scorer raises on its table
Succeeds(f) ==
  /\ f.readable
  /\ ~analyze_content_seo(f.table).err
  /\ ~analyze_technical_seo(f.table).err
  /\ ~analyze_user_experience(f.table).err
  /\ ~analyze_offpage_seo(f.table).err
LoopEnded == file_index = Len(uploaded_files)
FileNames(s) == [k \in 1..Len(s) |-> s[k].name]
EntryNames(s) == [k \in 1..Len(s) |-> s[k].file_name]

\* C12: the loop reaches its end whatever files fail to load or to score, and
\* at its end comparison_data holds exactly one entry for each file that
\* succeeded, in upload order, and none for a failed file.
C12_BatchContinues ==
  /\ [](LoopEnded =>
          EntryNames(comparison_data) = FileNames(SelectSeq(uploaded_files, Succeeds)))
  /\ <>LoopEnded

\* an unreadable file, then one that fails to score, then one that is scored
C12_Witness ==
  /\ LoopEnded
  /\ FileNames(uploaded_files) = <<"c.csv", "d.xlsx", "b.xlsx">>
  /\ EntryNames(comparison_data) = <<"b.xlsx">>
  /\ errors = <<"c.csv", "d.xlsx">>

\* the entry of a file uploaded alone
AloneEntry(f) ==
  LET c == analyze_content_seo(f.table)
      t == analyze_technical_seo(f.table)
      u == analyze_user_experience(f.table)
  IN [file_name |-> f.name,
      content_score |-> c.score,
      technical_score |-> t.score,
      ux_score |-> u.score,
      overall_score |-> Round(4 * c.score + 4 * t.score + 2 * u.score, 10),
      content_summary |-> summarize_category(c.weaknesses),
      technical_summary |-> summarize_category(t.weaknesses),
      ux_summary |-> summarize_category(u.weaknesses),
      content_details |-> c.scores,
      technical_details |-> t.scores,
      ux_details |-> u.scores]

\* C14: the entry recorded for a file (scores, weakness summaries, sub-score
\* mappings) is the one recorded when the file is uploaded alone, whatever
\* files precede or follow it and whether or not they fail.
C14_ResultIndependentOfBatch ==
  LET succeeded == SelectSeq(uploaded_files, Succeeds)
  IN /\ Len(comparison_data) <= Len(succeeded)
     /\ \A k \in 1..Len(comparison_data) : comparison_data[k] = AloneEntry(succeeded[k])

\* two scored files with different results around a file that fails
C14_Witness ==
  /\ LoopEnded
  /\ FileNames(uploaded_files) = <<"a.csv", "d.xlsx", "b.xlsx">>
  /\ EntryNames(comparison_data) = <<"a.csv", "b.xlsx">>
  /\ comparison_data[1].content_summary # comparison_data[2].content_summary
  /\ comparison_data[1].overall_score # comparison_data[2].overall_score

\* the table with column `from` supplied under the name `to` instead; the
\* value "Yes" of 'Indexable' is the value "Indexable" of 'Indexability'
AliasCell(from, cell) ==
  IF from = "Indexable" /\ cell.k = "str"
  THEN IF cell.s = "Yes" THEN Str("Indexable") ELSE Str("Non-Indexable")
  ELSE cell
Renamed(d, from, to) ==
  [d EXCEPT !.col = [c \in (DOMAIN d.col \ {from}) \cup {to} |->
     IF c = to THEN [k \in 1..d.rows |-> AliasCell(from, d.col[from][k])] ELSE d.col[c]]]
\* a sub-score of a result and whether its weakness is listed
SubScore(r, name, label) == <<r.scores[name], label \in Labels(r.weaknesses)>>
\* the table supplies the signal under `alias`: no earlier name of the list
\* is present
Under(alias, names) == FirstPresent(df, names) = alias

\* C15: a signal under an alias gives the sub-score and the weakness of the
\* same data under the first name: 'H1' for 'H1-1', 'Indexable' = "Yes" for
\* 'Indexability' = "Indexable", 'Canonical' and 'Canonical URL' for
\* 'Canonical Link Element 1'.
C15_AliasesAgree ==
  pc = "done" =>
    /\ Under("H1", <<"H1-1", "H1">>) =>
         SubScore(content, "h1_tags", "Missing or poorly optimized H1 tags.")
           = SubScore(analyze_content_seo(Renamed(df, "H1", "H1-1")), "h1_tags",
                      "Missing or poorly optimized H1 tags.")
    /\ Under("Indexable", <<"Indexability", "Indexable">>) =>
         SubScore(technical, "indexability", "Pages not indexable.")
           = SubScore(analyze_technical_seo(Renamed(df, "Indexable", "Indexability")),
                      "indexability", "Pages not indexable.")
    /\ \A alias \in {"Canonical", "Canonical URL"} :
         Under(alias, canonical_cols) =>
           SubScore(technical, "canonical_tags", "Improper or missing canonical tags.")
             = SubScore(analyze_technical_seo(Renamed(df, alias, "Canonical Link Element 1")),
                        "canonical_tags", "Improper or missing canonical tags.")

\* five rows under 'H1' and 'Indexable': two headings, three indexable pages
C15_Witness ==
  /\ pc = "done"
  /\ DOMAIN df.col = {"H1", "Indexable"}
  /\ SubScore(content, "h1_tags", "Missing or poorly optimized H1 tags.") = <<40, TRUE>>
  /\ SubScore(technical, "indexability", "Pages not indexable.") = <<60, TRUE>>

\* an 'LCP' column read as the same numbers under 'Largest Contentful Paint
\* Time (ms)', and as seconds converted to milliseconds
WholeNumbers(d, c) == \A k \in Rows(d) : IsNum(Cell(d, c, k)) => Cell(d, c, k).n % 10 = 0
SameValuesMs(d) ==
  [d EXCEPT !.col = [c \in {"Largest Contentful Paint Time (ms)"} |->
     [k \in 1..d.rows |-> Num(d.col["LCP"][k].n \div 10)]]]
SecondsToMs(d) ==
  [d EXCEPT !.col = [c \in {"Largest Contentful Paint Time (ms)"} |->
     [k \in 1..d.rows |-> Num(d.col["LCP"][k].n * 100)]]]
LcpOf(r) == r.scores["largest_contentful_paint"]
OnlyColumn(c) == DOMAIN df.col = {c}

\* C16 as claimed: a column of values gives the same largest_contentful_paint
\* sub-score under 'LCP' as under 'Largest Contentful Paint Time (ms)'.
C16_LcpSameUnderEitherName ==
  (pc = "done" /\ OnlyColumn("LCP") /\ WholeNumbers(df, "LCP")) =>
    LcpOf(ux) = LcpOf(analyze_user_experience(SameValuesMs(df)))

\* C16: the sub-score is the share of rows whose value is at most 2500 under
\* 'Largest Contentful Paint Time (ms)' and at most 2.5 under 'LCP', which is
\* in seconds: 'LCP' values give the sub-score of the same times in
\* milliseconds under the other name.
C16_LcpThresholdPerColumn ==
  pc = "done" =>
    /\ OnlyColumn("Largest Contentful Paint Time (ms)") =>
         Nearest(LcpOf(ux),
                 100 * Cardinality({k \in Rows(df) :
                   LET cell == Cell(df, "Largest Contentful Paint Time (ms)", k)
                   IN IsNum(cell) /\ cell.n <= 2500}),
                 df.rows)
    /\ OnlyColumn("LCP") =>
         /\ Nearest(LcpOf(ux),
                    100 * Cardinality({k \in Rows(df) : Cell(df, "LCP", k).n <= 25}),
                    df.rows)
         /\ LcpOf(ux) = LcpOf(analyze_user_experience(SecondsToMs(df)))

\* 2.5 s is good, 2.6 s and 2000 are not
C16_Witness ==
  /\ pc = "done"
  /\ OnlyColumn("LCP")
  /\ df.col["LCP"] = <<Num(25), Num(26), Num(20000)>>
  /\ LcpOf(ux) = 33

\* the band of the Scoring Legend that holds a score
LegendOf(score) ==
  ScoringLegend[CHOOSE k \in 1..Len(ScoringLegend) :
                  ScoringLegend[k].lo <= score /\ score <= ScoringLegend[k].hi]
Rendered == pc = "rendered"

\* C17: the label shown for an overall score is "Good" from 70, "Needs
\* Improvement" from 50 to 69 and "Poor" below 50.
C17_HealthLabelBreakpoints ==
  Rendered =>
    \A k \in 1..Len(cards) :
      LegendOf(cards[k].overall_score).label =
        IF cards[k].overall_score >= 70 THEN "Good"
        ELSE IF cards[k].overall_score >= 50 THEN "Needs Improvement"
        ELSE "Poor"

\* C18: the colour of a card's score circle is the colour the Scoring Legend
\* gives the score: red for 0-49, yellow for 50-89, green for 90-100.
C18_CircleAgreesWithLegend ==
  Rendered =>
    /\ ScoringLegend[1].color = "#dc3545" /\ ScoringLegend[2].color = "#ffc107"
    /\ ScoringLegend[3].color = "#28a745"
    /\ \A k \in 1..Len(cards) :
         cards[k].score_color = LegendOf(cards[k].overall_score).color

\* C21: at every point of the loop comparison_data and detailed_analyses have
\* the same length, and the entries at each index carry the same file name and
\* the same overall score.
C21_ListsAligned ==
  /\ Len(detailed_analyses) = Len(comparison_data)
  /\ \A k \in 1..Len(comparison_data) :
       /\ k <= Len(detailed_analyses)
       /\ detailed_analyses[k].file_name = comparison_data[k].file_name
       /\ detailed_analyses[k].overall_score = comparison_data[k].overall_score

\* in the middle of the loop, after a scored file and a failure
C21_Witness ==
  /\ pc = "loaded"
  /\ file_index = 2
  /\ Len(errors) = 1
  /\ Len(comparison_data) = 1
  /\ detailed_analyses[1].file_name = "b.xlsx"

\* C22: a table with recognised columns and no rows is scored without
\* raising: every scorer returns a category score and sub-scores in 0..100
\* and the file is recorded.
C22_EmptyTableScored ==
  (df.rows = 0 /\ pc # "loaded") =>
    /\ pc = "done"
    /\ \A k \in 1..3 :
         /\ Returned(Scorers[k])
         /\ Scorers[k].score \in 0..100
         /\ Values(Scorers[k].scores) \subseteq 0..100

\* C23: the cards are the recorded entries in non-increasing order of overall
\* score, entries of equal score in upload order.
C23_CardsSortedStable ==
  Rendered =>
    /\ Len(cards) = Len(comparison_data)
    /\ \E p \in Permutations(1..Len(cards)) :
         /\ \A k \in 1..Len(cards) :
              /\ cards[k].file_name = comparison_data[p[k]].file_name
              /\ cards[k].overall_score = comparison_data[p[k]].overall_score
         /\ \A k, l \in 1..Len(cards) :
              k < l => \/ cards[k].overall_score > cards[l].overall_score
                       \/ /\ cards[k].overall_score = cards[l].overall_score
                          /\ p[k] < p[l]

\* the higher score uploaded second comes first, the two equal scores keep
\* their upload order
C23_Witness ==
  /\ Rendered
  /\ EntryNames(comparison_data) = <<"a.csv", "b.xlsx", "a2.csv">>
  /\ [k \in 1..3 |-> cards[k].file_name] = <<"b.xlsx", "a.csv", "a2.csv">>
  /\ cards[2].overall_score = cards[3].overall_score

\* a weakness label is listed only with a returned sub-score below the floor
OnlyBelow(r, label, sub, floor) == label \in Labels(r.weaknesses) => r.scores[sub] < floor

\* C24: no weakness label comes with a returned (rounded) sub-score at or
\* above its floor: 70 for status_codes and indexability, 50 for the others.
C24_LabelOnlyBelowFloor ==
  pc = "done" =>
    /\ OnlyBelow(technical, "Issues with HTTP status codes.", "status_codes", 70)
    /\ OnlyBelow(technical, "Pages not indexable.", "indexability", 70)
    /\ OnlyBelow(technical, "Slow response times.", "response_time", 50)
    /\ OnlyBelow(content, "Short or missing meta titles.", "meta_title", 50)
    /\ OnlyBelow(content, "Short or missing meta descriptions.", "meta_description", 50)
    /\ OnlyBelow(content, "Missing or poorly optimized H1 tags.", "h1_tags", 50)
    /\ OnlyBelow(content, "Insufficient internal linking.", "internal_linking", 50)
    /\ OnlyBelow(content, "Low content quality or poor readability.", "content_quality", 50)
    /\ OnlyBelow(ux, "Pages not mobile-friendly.", "mobile_friendly", 50)
    /\ OnlyBelow(ux, "Slow LCP times.", "largest_contentful_paint", 50)
    /\ OnlyBelow(ux, "High CLS values.", "cumulative_layout_shift", 50)

\* the canonical column that the scorer reads, and its rows with a value
CanonicalColumn == FirstPresent(df, canonical_cols)
CanonicalRows == {k \in Rows(df) : notna(Cell(df, CanonicalColumn, k))}

\* C25: with a canonical column present and fewer than 70% of its rows
\* non-null, none included, the technical weaknesses hold 'Improper or
\* missing canonical tags.'.
C25_MissingCanonicalFlagged ==
  (pc = "done" /\ CanonicalColumn # "" /\ 100 * Cardinality(CanonicalRows) < 70 * df.rows) =>
    "Improper or missing canonical tags." \in Labels(technical.weaknesses)

\* C26: when every row passes every content-quality signal the table has
\* ('Word Count' >= 300, 'Flesch Reading Ease Score' >= 60), content_quality
\* is 100, also with one of the two columns only.
C26_ContentQualityFull ==
  LET Passes(c, least) ==
        Has(df, c) => \A k \in Rows(df) : IsNum(Cell(df, c, k)) /\ Cell(df, c, k).n >= least
  IN (/\ pc = "done"
      /\ Has(df, "Word Count") \/ Has(df, "Flesch Reading Ease Score")
      /\ Passes("Word Count", 300)
      /\ Passes("Flesch Reading Ease Score", 60)) =>
       content.scores["content_quality"] = 100

\* the columns that feed only the audit table of the technical scorer
FrameColumns ==
  {"Address", "URL", "XML Sitemap", "Sitemap", "Robots.txt", "Hreflang",
   "Images over 100kb", "Image Size"}
Without(d, cols) == [d EXCEPT !.col = [c \in DOMAIN d.col \ cols |-> d.col[c]]]

\* C27: the technical score and weaknesses of a table are those of the table
\* without its HTTPS, sitemap, robots, hreflang and image-size columns.
C27_TechnicalFrame ==
  (pc # "loaded" /\ Returned(content) /\ DOMAIN df.col \cap FrameColumns # {}) =>
    LET t == analyze_technical_seo(Without(df, FrameColumns))
    IN /\ Returned(technical)
       /\ technical.score = t.score
       /\ technical.weaknesses = t.weaknesses

\* C28: sanitize_sheet_name returns a non-empty name of at most 31
\* characters, none of them [ ] : * ? / \, without leading or trailing
\* whitespace.
C28_SheetNameValid ==
  pc = "named" =>
    LET out == sheets[1]
    IN /\ out # <<>>
       /\ Len(out) <= 31
       /\ \A k \in 1..Len(out) : out[k] \notin InvalidChars
       /\ out[1] \notin Whitespace
       /\ out[Len(out)] \notin Whitespace

\* a name of more than 31 characters that starts with a blank and a colon
C28_Witness ==
  /\ pc = "named"
  /\ Len(raw_name) > 31
  /\ raw_name[1] = " " /\ raw_name[2] = ":"
  /\ Len(sheets[1]) = 30
  /\ sheets[1][1] = "_"
  /\ sheets[1][30] = "."

\* C29: files with distinct upload names are written to distinct sheets: the
\* export succeeds and the workbook has one sheet per file.
C29_SheetNamesDistinct ==
  (/\ pc \in {"exported", "export_error"}
   /\ \A k, l \in 1..Len(uploaded_files) :
        uploaded_files[k].name = uploaded_files[l].name => k = l) =>
    /\ pc = "exported"
    /\ Len(sheets) = Len(detailed_analyses)
    /\ \A k, l \in 1..Len(sheets) : sheets[k] = sheets[l] => k = l

\* C30: after the loop the tabs are rendered exactly when some file was
\* scored; when every file failed the outcome is one error per file, in
\* upload order, followed by the error "No files were successfully
\* processed. Please check your file formats and try again.", and no card.
C30_TabsIffSomeSuccess ==
  pc \in {"rendered", "empty"} =>
    /\ pc = "rendered" <=> \E k \in 1..Len(uploaded_files) : Succeeds(uploaded_files[k])
    /\ pc = "rendered" => cards # <<>>
    /\ pc = "empty" =>
         /\ errors = Append(FileNames(uploaded_files),
                            "No files were successfully processed. Please check your file formats and try again.")
         /\ cards = <<>>

\* an unreadable file and one that fails to score, and nothing else
C30_Witness ==
  /\ pc = "empty"
  /\ FileNames(uploaded_files) = <<"c.csv", "d.xlsx">>
  /\ Len(errors) = 3

====
